---- MODULE Spec2Model ----
(***************************************************************************)
(* Model of src/src/dedup_minhash.py: exact-hash filtering followed by     *)
(* MinHash + LSH near-duplicate clustering (create_minhash and main).      *)
(*                                                                         *)
(* The datasketch classes the program calls (MinHash, MinHashLSH) are      *)
(* modelled by what they do, at reduced width: a signature has NumPerm     *)
(* positions instead of 128, hash values have 5 bits instead of 32,       *)
(* and the permutation prime is 2^7-1 instead of 2^61-1.  The structure    *)
(* (min over permuted shingle hashes, sentinel for "no data", banding,     *)
(* one hashtable per band, query = union of the colliding buckets) is      *)
(* the library's.                                                          *)
(***************************************************************************)
EXTENDS Integers, Sequences, FiniteSets, TLC

(***************************************************************************)
(* Bounds of the model.                                                    *)
(***************************************************************************)
MaxDocs == 4            \* longest input (rows of the input parquet file)

(***************************************************************************)
(* Program constants (scaled where noted).                                 *)
(***************************************************************************)
ShingleWidth == 3       \* words[i:i+3], range(len(words)-2)
DefaultThreshold == 85  \* --threshold default, in percent
NumPerm == 6            \* num_perm (128 in the program)
MersennePrime == 127    \* datasketch _mersenne_prime (2^61-1 in the library)
MaxHash == 31           \* datasketch _max_hash (2^32-1 in the library)
HashRange == 32         \* datasketch _hash_range (2^32 in the library)

(***************************************************************************)
(* Python values: a str is a sequence of one-character strings, None is    *)
(* a value of another type.                                                *)
(***************************************************************************)
Str(s) == [type |-> "str", val |-> s]
None == [type |-> "NoneType", val |-> <<>>]

IsSpace(c) == c = " "

\* str.lower(), per character
LowerChar(c) ==
    CASE c = "A" -> "a"
      [] c = "D" -> "d"
      [] c = "F" -> "f"
      [] c = "H" -> "h"
      [] OTHER -> c

Lower(s) == [i \in 1..Len(s) |-> LowerChar(s[i])]

\* str.split(): the maximal runs of non-whitespace characters, in order
RECURSIVE SplitFrom(_, _, _)
SplitFrom(s, i, cur) ==
    IF i > Len(s)
    THEN IF cur = <<>> THEN <<>> ELSE <<cur>>
    ELSE IF IsSpace(s[i])
         THEN IF cur = <<>>
              THEN SplitFrom(s, i + 1, <<>>)
              ELSE <<cur>> \o SplitFrom(s, i + 1, <<>>)
         ELSE SplitFrom(s, i + 1, Append(cur, s[i]))

Split(s) == SplitFrom(s, 1, <<>>)

\* ' '.join(ws)
RECURSIVE Join(_)
Join(ws) ==
    IF ws = <<>> THEN <<>>
    ELSE IF Len(ws) = 1 THEN ws[1]
    ELSE ws[1] \o <<" ">> \o Join(Tail(ws))

\* words[i:i+3] for a 0-based i: python slices stop at the end of the list
Slice(words, i, j) ==
    LET hi == IF j < Len(words) THEN j ELSE Len(words)
    IN  [n \in 1..(IF hi > i THEN hi - i ELSE 0) |-> words[i + n]]

\* a window is started at every word: range(len(words))
Shingles_EveryStart(words) ==
    [i \in 1..Len(words) |-> Join(Slice(words, i - 1, i - 1 + ShingleWidth))]

\* [' '.join(words[i:i+3]) for i in range(len(words)-2)]
Shingles(words) ==
    LET n == IF Len(words) - 2 > 0 THEN Len(words) - 2 ELSE 0
    IN  [i \in 1..n |-> Join(Slice(words, i - 1, i - 1 + ShingleWidth))]

\* shingle.encode('utf8'), on the characters the model uses (ASCII)
Code(c) ==
    CASE c = " " -> 32
      [] c = "a" -> 97
      [] c = "d" -> 100
      [] c = "f" -> 102
      [] c = "h" -> 104
      [] c = "A" -> 65
      [] c = "D" -> 68
      [] c = "F" -> 70
      [] c = "H" -> 72
      [] OTHER -> 63

Encode(s) == [i \in 1..Len(s) |-> Code(s[i])]

(***************************************************************************)
(* datasketch.MinHash at reduced width.                                    *)
(***************************************************************************)
\* hashfunc (sha1_hash32 in the library): bytes -> 0..HashRange-1
RECURSIVE HashFrom(_, _, _)
HashFrom(bytes, i, h) ==
    IF i > Len(bytes) THEN h
    ELSE HashFrom(bytes, i + 1, (h * 31 + bytes[i]) % HashRange)

HashFunc(bytes) == HashFrom(bytes, 1, 7)

\* the permutation coefficients (a, b) drawn once from the fixed seed
PermA == <<5, 23, 41, 67, 89, 113>>
PermB == <<3, 17, 29, 58, 71, 101>>

\* bitwise_and(x, _max_hash): _max_hash is 2^w - 1
AndMaxHash(x) == x % (MaxHash + 1)

\* MinHash(num_perm): every position starts at the sentinel _max_hash
InitHashValues == [i \in 1..NumPerm |-> MaxHash]

Min2(x, y) == IF x < y THEN x ELSE y

\* the permuted hash is stored without the minimum
Update_Assign(hashvalues, bytes) ==
    LET hv == HashFunc(bytes)
    IN  [i \in 1..NumPerm |->
            AndMaxHash((PermA[i] * hv + PermB[i]) % MersennePrime)]

\* MinHash.update(b): hashvalues = minimum(((a*hv + b) % prime) & max_hash, hashvalues)
Update(hashvalues, bytes) ==
    LET hv == HashFunc(bytes)
    IN  [i \in 1..NumPerm |->
            Min2(AndMaxHash((PermA[i] * hv + PermB[i]) % MersennePrime), hashvalues[i])]

RECURSIVE UpdateAll(_, _)
UpdateAll(hashvalues, shingles) ==
    IF shingles = <<>> THEN hashvalues
    ELSE UpdateAll(Update(hashvalues, Encode(shingles[1])), Tail(shingles))


(***************************************************************************)
(* datasketch.MinHashLSH at reduced width.                                 *)
(***************************************************************************)
\* _optimal_param(threshold, num_perm, 0.5, 0.5) for num_perm = NumPerm: the
\* (b, r) minimising the weighted false positive/negative area, tabulated
\* over thresholds in percent
OptimalParam(threshold) ==
    IF threshold < 23 THEN [b |-> 6, r |-> 1]
    ELSE IF threshold < 27 THEN [b |-> 5, r |-> 1]
    ELSE IF threshold < 32 THEN [b |-> 4, r |-> 1]
    ELSE IF threshold < 35 THEN [b |-> 3, r |-> 1]
    ELSE IF threshold < 55 THEN [b |-> 3, r |-> 2]
    ELSE IF threshold < 72 THEN [b |-> 2, r |-> 3]
    ELSE IF threshold < 74 THEN [b |-> 1, r |-> 4]
    ELSE IF threshold < 78 THEN [b |-> 1, r |-> 5]
    ELSE [b |-> 1, r |-> 6]

\* MinHashLSH.__init__ raises ValueError unless 0.0 <= threshold <= 1.0
ThresholdAccepted(threshold) == threshold >= 0 /\ threshold <= 100

\* the threshold taken as a distance: the banding of 1 - threshold
NewLSH_Distance(threshold) ==
    LET p == OptimalParam(100 - threshold)
    IN  [b |-> p.b, r |-> p.r,
         hashtables |-> [i \in 1..p.b |-> <<>>],
         keys |-> <<>>]

\* MinHashLSH(threshold, num_perm): b empty hashtables, no keys
NewLSH(threshold) ==
    LET p == OptimalParam(threshold)
    IN  [b |-> p.b, r |-> p.r,
         hashtables |-> [i \in 1..p.b |-> <<>>],
         keys |-> <<>>]

\* _H(minhash.hashvalues[start:end]) for band i of hashranges: the bytes of
\* the slice, which determine the slice and are determined by it
BandKey(lsh, m, i) == [n \in 1..lsh.r |-> m[(i - 1) * lsh.r + n]]

\* hashtable.get(H): the set of keys stored under H
Get(hashtable, H) == IF H \in DOMAIN hashtable THEN hashtable[H] ELSE {}

\* hashtable.insert(H, key)
Put(hashtable, H, key) ==
    [x \in (DOMAIN hashtable) \cup {H} |->
        IF x = H THEN Get(hashtable, H) \cup {key} ELSE hashtable[x]]

\* only the first band is looked up
Query_FirstBand(lsh, m) == Get(lsh.hashtables[1], BandKey(lsh, m, 1))

\* lsh.query(m): the set of candidates, the keys of every colliding bucket
Query(lsh, m) ==
    UNION {Get(lsh.hashtables[i], BandKey(lsh, m, i)) : i \in 1..lsh.b}

\* the key recorded, but stored in no hashtable
Insert_KeysOnly(lsh, key, m) ==
    [lsh EXCEPT
        !.keys = [k \in (DOMAIN lsh.keys) \cup {key} |->
                    IF k = key THEN [i \in 1..lsh.b |-> BandKey(lsh, m, i)]
                    ELSE lsh.keys[k]]]

\* lsh.insert(key, m): the key under its band key in every hashtable
Insert(lsh, key, m) ==
    [lsh EXCEPT
        !.hashtables = [i \in 1..lsh.b |->
                            Put(lsh.hashtables[i], BandKey(lsh, m, i), key)],
        !.keys = [k \in (DOMAIN lsh.keys) \cup {key} |->
                    IF k = key THEN [i \in 1..lsh.b |-> BandKey(lsh, m, i)]
                    ELSE lsh.keys[k]]]

\* the keys held by the index
IndexedKeys(lsh) == DOMAIN lsh.keys

(***************************************************************************)
(* The input: rows of the input parquet file (df.to_dicts()).  A row has a *)
(* precomputed sha256 and a text; the digest is of the raw content, so     *)
(* two rows with different digests may carry the same (cleaned) text.      *)
(***************************************************************************)
Row(sha, text) == [sha256 |-> sha, text |-> text]

Rows ==
    { Row("h0", None),
      Row("h1", Str(<<>>)),
      Row("h2", Str(<<"a", " ", "d">>)),
      Row("h3", Str(<<"d", " ", "a", " ", "d", " ", "f">>)),
      Row("h4", Str(<<"D", " ", "a", " ", " ", "d", " ", "F">>)),
      Row("h5", Str(<<"a", " ", "d", " ", "f", " ", "h">>)),
      Row("h6", Str(<<"a", " ", "d", " ", "f">>)),
      Row("h7", Str(<<"d", " ", "f", " ", "h">>)) }

\* create_minhash(text) for a str text: the signature (m.hashvalues) after
\* one update per shingle
MinHashOf(text) ==
    LET words == Split(Lower(text))
        shingles == Shingles(words)
    IN  UpdateAll(InitHashValues, shingles)

\* create_minhash is a pure function of the text: its values on the texts of
\* the input rows, computed once
Texts == {row.text.val : row \in {r \in Rows : r.text.type = "str"}}

MinHashTable == [text \in Texts |-> MinHashOf(text)]

create_minhash(text) == MinHashTable[text]

\* --threshold values (percent) given on the command line
Thresholds == {-10, 0, 30, 50, 70, DefaultThreshold, 110}

Inputs == UNION {[1..n -> Rows] : n \in 0..MaxDocs}

VARIABLES
    items,              \* df.to_dicts(): the input rows, in arrival order
    pc,                 \* "idle": no run in progress; "loop": inside the for loop
    threshold,          \* args.threshold of the current run
    idx,                \* enumerate index of the next row (0-based)
    lsh,                \* the MinHashLSH index
    sha256_seen,        \* set of digests seen
    minhashes,          \* idx -> signature of every row that passed the digest filter
    near_dupe_groups,   \* defaultdict(list) in insertion order: <<[key, group]>>
    exact_dupes,        \* counter of exact duplicates
    calls,              \* history: the signature/index calls of the current run
    runs,               \* history: how each run so far ended, and what it wrote
    cm                  \* the frame of a call of create_minhash followed step by step

vars == <<items, pc, threshold, idx, lsh, sha256_seen, minhashes,
          near_dupe_groups, exact_dupes, calls, runs, cm>>

\* no call of create_minhash is followed step by step: main() takes the
\* call as one step of its iteration
NoCall == [pc |-> "none", text |-> <<>>, words |-> <<>>, shingles |-> <<>>,
           i |-> 0, hashvalues |-> <<>>, fed |-> <<>>]

\* near_dupe_groups as a dict
GroupKeys(groups) == {groups[i].key : i \in 1..Len(groups)}

GroupOf(groups, key) ==
    (CHOOSE i \in 1..Len(groups) : groups[i].key = key)

\* the id is put at the head of the list under the key
AppendToGroup_Prepend(groups, key, id) ==
    IF key \in GroupKeys(groups)
    THEN [groups EXCEPT ![GroupOf(groups, key)].group = <<id>> \o @]
    ELSE Append(groups, [key |-> key, group |-> <<id>>])

\* the list under the key is assigned instead of appended to
AppendToGroup_Assign(groups, key, id) ==
    IF key \in GroupKeys(groups)
    THEN [groups EXCEPT ![GroupOf(groups, key)].group = <<id>>]
    ELSE Append(groups, [key |-> key, group |-> <<id>>])

\* a new group is put before the existing ones
AppendToGroup_Front(groups, key, id) ==
    IF key \in GroupKeys(groups)
    THEN [groups EXCEPT ![GroupOf(groups, key)].group = Append(@, id)]
    ELSE <<[key |-> key, group |-> <<id>>]>> \o groups

\* near_dupe_groups[key].append(idx): a missing key is created, at the end
AppendToGroup(groups, key, id) ==
    IF key \in GroupKeys(groups)
    THEN [groups EXCEPT ![GroupOf(groups, key)].group = Append(@, id)]
    ELSE Append(groups, [key |-> key, group |-> <<id>>])

SeqMax(s) == CHOOSE x \in {s[i] : i \in 1..Len(s)} :
                \A j \in 1..Len(s) : x >= s[j]

SeqMin(s) == CHOOSE x \in {s[i] : i \in 1..Len(s)} :
                \A j \in 1..Len(s) : x <= s[j]

\* the last member of each group survives instead of the first
UniqueIndices_Max(groups) == [i \in 1..Len(groups) |-> SeqMax(groups[i].group)]

\* unique_indices = [min(group) for group in near_dupe_groups.values()]
UniqueIndices(groups) == [i \in 1..Len(groups) |-> SeqMin(groups[i].group)]

\* the near-duplicates counted from the whole input instead of the survivors
NearDupes_FromInput(mh, unique) == Len(items) - Len(unique)

\* near_dupes = len(minhashes) - len(unique_indices)
NearDupes(mh, unique) == Cardinality(DOMAIN mh) - Len(unique)

\* the stats record written to reports/dedup_stats.json
Stats(exact, near, unique) ==
    [exact_duplicates |-> exact,
     near_duplicates |-> near,
     unique_items |-> Len(unique),
     total_removed |-> exact + near]

NoStats == Stats(0, 0, <<>>)

\* how a run ended: exit "ok" with the files written, or the exception raised
RunRecord(t, exit, unique, stats, output) ==
    [threshold |-> t, exit |-> exit, unique_indices |-> unique,
     stats |-> stats, output |-> output]

Init ==
    /\ items \in Inputs
    /\ pc = "idle"
    /\ threshold = DefaultThreshold
    /\ idx = 0
    /\ lsh = NewLSH(DefaultThreshold)
    /\ sha256_seen = {}
    /\ minhashes = <<>>
    /\ near_dupe_groups = <<>>
    /\ exact_dupes = 0
    /\ calls = <<>>
    /\ runs = <<>>
    /\ cm = NoCall

\* main(), lines 19-34: parse the arguments, read the input, build the index
\* and the empty collections
Begin(t) ==
    /\ pc = "idle"
    /\ ThresholdAccepted(t)
    /\ pc' = "loop"
    /\ threshold' = t
    /\ idx' = 0
    /\ lsh' = NewLSH(t)
    /\ sha256_seen' = {}
    /\ minhashes' = <<>>
    /\ near_dupe_groups' = <<>>
    /\ exact_dupes' = 0
    /\ calls' = <<>>
    /\ UNCHANGED <<cm, items, runs>>

\* main(), line 28: MinHashLSH(...) raises ValueError; nothing was processed
BeginRejected(t) ==
    /\ pc = "idle"
    /\ ~ThresholdAccepted(t)
    /\ runs' = Append(runs, RunRecord(t, "ValueError", <<>>, NoStats, <<>>))
    /\ threshold' = t
    /\ idx' = 0
    /\ lsh' = NewLSH(DefaultThreshold)
    /\ sha256_seen' = {}
    /\ minhashes' = <<>>
    /\ near_dupe_groups' = <<>>
    /\ exact_dupes' = 0
    /\ calls' = <<>>
    /\ UNCHANGED <<cm, items, pc>>

\* the program is started on the input
Start(t) == runs = <<>> /\ Begin(t)

StartRejected(t) == runs = <<>> /\ BeginRejected(t)

\* the program is started a second time on the same input
Restart(t) == Len(runs) = 1 /\ Begin(t)

RestartRejected(t) == Len(runs) = 1 /\ BeginRejected(t)

item == items[idx + 1]

\* minhashes[idx] = m
Record(mh, id, m) == [k \in (DOMAIN mh) \cup {id} |-> IF k = id THEN m ELSE mh[k]]

\* the exact duplicate is counted, but without the continue: the row goes on
\* to the signature and the index like any other
ExactDuplicate_NoContinue ==
    /\ pc = "loop"
    /\ idx < Len(items)
    /\ item.sha256 \in sha256_seen
    /\ item.text.type = "str"
    /\ exact_dupes' = exact_dupes + 1
    /\ LET m == create_minhash(item.text.val)
           result == Query(lsh, m)
       IN  /\ minhashes' = Record(minhashes, idx, m)
           /\ IF result # {}
              THEN /\ \E result0 \in result :
                        near_dupe_groups' = AppendToGroup(near_dupe_groups, result0, idx)
                   /\ lsh' = lsh
              ELSE /\ near_dupe_groups' = AppendToGroup(near_dupe_groups, idx, idx)
                   /\ lsh' = Insert(lsh, idx, m)
    /\ calls' = calls \o <<[op |-> "create_minhash", idx |-> idx],
                           [op |-> "query", idx |-> idx]>>
    /\ idx' = idx + 1
    /\ UNCHANGED <<cm, items, pc, threshold, sha256_seen, runs>>

\* lines 36-39: the digest was seen before
ExactDuplicate ==
    /\ pc = "loop"
    /\ idx < Len(items)
    /\ item.sha256 \in sha256_seen
    /\ exact_dupes' = exact_dupes + 1
    /\ idx' = idx + 1
    /\ UNCHANGED <<cm, items, pc, threshold, lsh, sha256_seen, minhashes,
                   near_dupe_groups, calls, runs>>

\* lines 40-43 on a text that is no str: text.lower() raises AttributeError
\* after the digest was added, and the run ends without writing anything
MalformedText ==
    /\ pc = "loop"
    /\ idx < Len(items)
    /\ item.sha256 \notin sha256_seen
    /\ item.text.type # "str"
    /\ sha256_seen' = sha256_seen \cup {item.sha256}
    /\ calls' = Append(calls, [op |-> "create_minhash", idx |-> idx])
    /\ pc' = "idle"
    /\ runs' = Append(runs, RunRecord(threshold, "AttributeError", <<>>, NoStats, <<>>))
    /\ UNCHANGED <<cm, items, threshold, idx, lsh, minhashes, near_dupe_groups,
                   exact_dupes>>

\* the row is inserted into the index before the index is queried
NearDuplicate_InsertFirst ==
    /\ pc = "loop"
    /\ idx < Len(items)
    /\ item.sha256 \notin sha256_seen
    /\ item.text.type = "str"
    /\ LET m == create_minhash(item.text.val)
           inserted == Insert(lsh, idx, m)
           result == Query(inserted, m)
       IN  /\ result # {}
           /\ \E result0 \in result :
                near_dupe_groups' = AppendToGroup(near_dupe_groups, result0, idx)
           /\ lsh' = inserted
           /\ minhashes' = Record(minhashes, idx, m)
    /\ sha256_seen' = sha256_seen \cup {item.sha256}
    /\ calls' = calls \o <<[op |-> "create_minhash", idx |-> idx],
                           [op |-> "insert", idx |-> idx],
                           [op |-> "query", idx |-> idx]>>
    /\ idx' = idx + 1
    /\ UNCHANGED <<cm, items, pc, threshold, exact_dupes, runs>>

\* the matched row is inserted into the index as well
NearDuplicate_Inserts ==
    /\ pc = "loop"
    /\ idx < Len(items)
    /\ item.sha256 \notin sha256_seen
    /\ item.text.type = "str"
    /\ LET m == create_minhash(item.text.val)
           result == Query(lsh, m)
       IN  /\ result # {}
           /\ \E result0 \in result :
                near_dupe_groups' = AppendToGroup(near_dupe_groups, result0, idx)
           /\ lsh' = Insert(lsh, idx, m)
           /\ minhashes' = Record(minhashes, idx, m)
    /\ sha256_seen' = sha256_seen \cup {item.sha256}
    /\ calls' = calls \o <<[op |-> "create_minhash", idx |-> idx],
                           [op |-> "query", idx |-> idx],
                           [op |-> "insert", idx |-> idx]>>
    /\ idx' = idx + 1
    /\ UNCHANGED <<cm, items, pc, threshold, exact_dupes, runs>>

\* lines 40-48: a new digest, and the query returns candidates: the row joins
\* the group of result[0].  list(set) fixes no order, so result[0] is any
\* of the candidates
NearDuplicate ==
    /\ pc = "loop"
    /\ idx < Len(items)
    /\ item.sha256 \notin sha256_seen
    /\ item.text.type = "str"
    /\ LET m == create_minhash(item.text.val)
           result == Query(lsh, m)
       IN  /\ result # {}
           /\ \E result0 \in result :
                near_dupe_groups' = AppendToGroup(near_dupe_groups, result0, idx)
           /\ minhashes' = Record(minhashes, idx, m)
    /\ sha256_seen' = sha256_seen \cup {item.sha256}
    /\ calls' = calls \o <<[op |-> "create_minhash", idx |-> idx],
                           [op |-> "query", idx |-> idx]>>
    /\ idx' = idx + 1
    /\ UNCHANGED <<cm, items, pc, threshold, lsh, exact_dupes, runs>>

\* lines 40-51: a new digest, and the query returns nothing: the row is
\* inserted into the index and opens its own group
NewCluster ==
    /\ pc = "loop"
    /\ idx < Len(items)
    /\ item.sha256 \notin sha256_seen
    /\ item.text.type = "str"
    /\ LET m == create_minhash(item.text.val)
           result == Query(lsh, m)
       IN  /\ result = {}
           /\ lsh' = Insert(lsh, idx, m)
           /\ near_dupe_groups' = AppendToGroup(near_dupe_groups, idx, idx)
           /\ minhashes' = Record(minhashes, idx, m)
    /\ sha256_seen' = sha256_seen \cup {item.sha256}
    /\ calls' = calls \o <<[op |-> "create_minhash", idx |-> idx],
                           [op |-> "query", idx |-> idx],
                           [op |-> "insert", idx |-> idx]>>
    /\ idx' = idx + 1
    /\ UNCHANGED <<cm, items, pc, threshold, exact_dupes, runs>>

\* lines 53-77: the loop is over; compute the retained list and the stats,
\* write the stats file and the output rows
Finish ==
    /\ pc = "loop"
    /\ idx = Len(items)
    /\ LET unique_indices == UniqueIndices(near_dupe_groups)
           near_dupes == NearDupes(minhashes, unique_indices)
           stats == Stats(exact_dupes, near_dupes, unique_indices)
           df_deduped == [i \in 1..Len(unique_indices) |-> items[unique_indices[i] + 1]]
       IN  runs' = Append(runs, RunRecord(threshold, "ok", unique_indices, stats, df_deduped))
    /\ pc' = "idle"
    /\ UNCHANGED <<cm, items, threshold, idx, lsh, sha256_seen, minhashes,
                   near_dupe_groups, exact_dupes, calls>>

Next ==
    \/ \E t \in Thresholds : Start(t)
    \/ \E t \in Thresholds : StartRejected(t)
    \/ ExactDuplicate
    \/ MalformedText
    \/ NearDuplicate
    \/ NewCluster
    \/ Finish

Spec == Init /\ [][Next]_vars

(***************************************************************************)
(* Two runs of the program on one input, to compare what they write.       *)
(***************************************************************************)
RerunRows == {row \in Rows : row.sha256 \in {"h0", "h3", "h4", "h5", "h6", "h7"}}

RerunInputs == UNION {[1..n -> RerunRows] : n \in 0..MaxDocs}

InitTwice == Init /\ items \in RerunInputs

NextTwice ==
    \/ Next
    \/ \E t \in Thresholds : Restart(t)
    \/ \E t \in Thresholds : RestartRejected(t)

SpecTwice == InitTwice /\ [][NextTwice]_vars

(***************************************************************************)
(* One call of create_minhash(text), followed statement by statement, on   *)
(* texts made of up to MaxWords one-letter words and the whitespace        *)
(* around them.                                                            *)
(***************************************************************************)
MaxWords == 4

Letters == {"a", "D", "f"}

\* the words with one space between them, with two spaces between them, or
\* with one space between them and one before and after
RECURSIVE Spaced(_, _)
Spaced(ws, gap) ==
    IF ws = <<>> THEN <<>>
    ELSE IF Len(ws) = 1 THEN <<ws[1]>>
    ELSE <<ws[1]>> \o gap \o Spaced(Tail(ws), gap)

TextsOf(ws) ==
    { Spaced(ws, <<" ">>),
      Spaced(ws, <<" ", " ">>),
      <<" ">> \o Spaced(ws, <<" ">>) \o <<" ">> }

TextInputs == UNION {TextsOf(ws) : ws \in UNION {[1..n -> Letters] : n \in 0..MaxWords}}

\* main() is not running
MainIdle ==
    /\ items = <<>>
    /\ pc = "idle"
    /\ threshold = DefaultThreshold
    /\ idx = 0
    /\ lsh = NewLSH(DefaultThreshold)
    /\ sha256_seen = {}
    /\ minhashes = <<>>
    /\ near_dupe_groups = <<>>
    /\ exact_dupes = 0
    /\ calls = <<>>
    /\ runs = <<>>

mainvars == <<items, pc, threshold, idx, lsh, sha256_seen, minhashes,
              near_dupe_groups, exact_dupes, calls, runs>>

\* create_minhash(text) has been called
InitSignature ==
    /\ MainIdle
    /\ \E text \in TextInputs : cm = [NoCall EXCEPT !.pc = "minhash", !.text = text]

\* line 11: m = MinHash(num_perm=num_perm)
NewMinHash ==
    /\ cm.pc = "minhash"
    /\ cm' = [cm EXCEPT !.pc = "words", !.hashvalues = InitHashValues]
    /\ UNCHANGED mainvars

\* line 12: words = text.lower().split()
SplitWords ==
    /\ cm.pc = "words"
    /\ cm' = [cm EXCEPT !.pc = "shingles", !.words = Split(Lower(cm.text))]
    /\ UNCHANGED mainvars

\* line 13: shingles = [' '.join(words[i:i+3]) for i in range(len(words)-2)]
MakeShingles ==
    /\ cm.pc = "shingles"
    /\ cm' = [cm EXCEPT !.pc = "for", !.shingles = Shingles(cm.words), !.i = 0]
    /\ UNCHANGED mainvars

\* lines 14-15: the next shingle of the list is fed to m.update
UpdateStep ==
    /\ cm.pc = "for"
    /\ cm.i < Len(cm.shingles)
    /\ cm' = [cm EXCEPT
                !.hashvalues = Update(cm.hashvalues, Encode(cm.shingles[cm.i + 1])),
                !.fed = Append(cm.fed, cm.shingles[cm.i + 1]),
                !.i = cm.i + 1]
    /\ UNCHANGED mainvars

\* line 16: return m
Return ==
    /\ cm.pc = "for"
    /\ cm.i = Len(cm.shingles)
    /\ cm' = [cm EXCEPT !.pc = "return"]
    /\ UNCHANGED mainvars

NextSignature ==
    \/ NewMinHash
    \/ SplitWords
    \/ MakeShingles
    \/ UpdateStep
    \/ Return

SpecSignature == InitSignature /\ [][NextSignature]_vars

(***************************************************************************)
(* Vocabulary of the properties.                                           *)
(***************************************************************************)
LastRun == runs[Len(runs)]

\* the run has written its output and its stats
Finished == pc = "idle" /\ runs # <<>> /\ LastRun.exit = "ok"

Ids == 0..(Len(items) - 1)

ShaOf(i) == items[i + 1].sha256

\* the first row of the input with its digest
FirstOccurrence(i) == \A j \in 0..(i - 1) : ShaOf(j) # ShaOf(i)

Survivors == {i \in Ids : FirstOccurrence(i)}

RetainedOf(run) == {run.unique_indices[n] : n \in 1..Len(run.unique_indices)}

Retained == RetainedOf(LastRun)

WellFormed(i) == items[i + 1].text.type = "str"

SigOf(i) == create_minhash(items[i + 1].text.val)

\* number of whitespace-delimited tokens of a well-formed row
NumWords(i) == Len(Split(Lower(items[i + 1].text.val)))

SubK(i) == WellFormed(i) /\ NumWords(i) < ShingleWidth

\* the threshold of the current run lies in (0, 1]
ValidThreshold == threshold > 0 /\ threshold <= 100

\* two signatures agree on every row of some band of the banding of threshold t
BandsCollide(m1, m2, t) ==
    LET p == OptimalParam(t)
    IN  \E i \in 1..p.b : \A n \in 1..p.r :
            m1[(i - 1) * p.r + n] = m2[(i - 1) * p.r + n]

(***************************************************************************)
(* C1: conservation law.  When a run has written its stats, the number of  *)
(* input rows equals exact_duplicates + near_duplicates + unique_items,    *)
(* near_duplicates is the number of rows that passed the digest filter     *)
(* minus the number retained, and total_removed is the sum of the two      *)
(* duplicate counts.                                                       *)
(***************************************************************************)
C1_Conservation ==
    Finished =>
        LET s == LastRun.stats
        IN  /\ Len(items) = s.exact_duplicates + s.near_duplicates + s.unique_items
            /\ s.near_duplicates = Cardinality(Survivors) - Cardinality(Retained)
            /\ s.unique_items = Cardinality(Retained)
            /\ s.total_removed = s.exact_duplicates + s.near_duplicates

C1_Witness ==
    /\ Finished
    /\ LastRun.stats.exact_duplicates >= 1
    /\ LastRun.stats.near_duplicates >= 1
    /\ LastRun.stats.unique_items >= 2

(***************************************************************************)
(* C2: exact-duplicate completeness.  As claimed: of two rows with the     *)
(* same digest, the first row with that digest is retained and the later   *)
(* one is not.  Stated for a threshold in (0, 1] and rows of at least three *)
(* words, whose signature is built from shingles.                          *)
(***************************************************************************)
C2_EarlierAlwaysRetained ==
    (Finished /\ ValidThreshold) =>
        \A i \in Ids : \A j \in Ids :
            (i < j /\ ShaOf(i) = ShaOf(j) /\ FirstOccurrence(i) /\ ~SubK(i))
                => (i \in Retained /\ j \notin Retained)

(***************************************************************************)
(* C2 as amended: of two rows with the same digest the later one is never  *)
(* retained, and the first row with that digest is retained exactly when   *)
(* its signature collides, in no band, with an earlier retained row.       *)
(***************************************************************************)
C2_AtMostEarlierRetained ==
    Finished =>
        \A i \in Ids : \A j \in Ids :
            (i < j /\ ShaOf(i) = ShaOf(j))
                => /\ j \notin Retained
                   /\ FirstOccurrence(i) =>
                        (i \in Retained <=>
                            ~\E k \in Retained :
                                k < i /\ BandsCollide(SigOf(k), SigOf(i), threshold))

C2_Witness ==
    /\ Finished
    /\ ValidThreshold
    /\ \E i \in Ids : \E j \in Ids :
        /\ i < j /\ ShaOf(i) = ShaOf(j) /\ FirstOccurrence(i) /\ ~SubK(i)
        /\ i \notin Retained
        /\ j \notin Retained
    /\ \E i \in Ids : \E j \in Ids :
        /\ i < j /\ ShaOf(i) = ShaOf(j)
        /\ i \in Retained

(***************************************************************************)
(* C3: short rows.  As claimed: a row of fewer than three words (the empty *)
(* text included) that passes the digest filter gets no match from the     *)
(* index query, opens its own group, enters the index, and is retained     *)
(* when the run ends (for a threshold in (0, 1]).                          *)
(***************************************************************************)
C3_ShortRowsUnique ==
    \A i \in DOMAIN minhashes :
        (SubK(i) /\ ValidThreshold) =>
            /\ i \in GroupKeys(near_dupe_groups)
            /\ i \in IndexedKeys(lsh)
            /\ Finished => i \in Retained

(***************************************************************************)
(* C4: self-similarity.  A row that passed the digest filter and whose     *)
(* signature equals that of an earlier row that passed it got a non-empty  *)
(* query result: it never enters the index, opens no group, belongs to a   *)
(* group of an earlier row, and is not retained; the run counts at least   *)
(* one near-duplicate.                                                     *)
(***************************************************************************)
C4_SelfSimilarity ==
    \A i \in DOMAIN minhashes : \A j \in DOMAIN minhashes :
        (i < j /\ SigOf(i) = SigOf(j)) =>
            /\ j \notin IndexedKeys(lsh)
            /\ j \notin GroupKeys(near_dupe_groups)
            /\ \E n \in 1..Len(near_dupe_groups) :
                /\ near_dupe_groups[n].key < j
                /\ \E k \in 2..Len(near_dupe_groups[n].group) :
                        near_dupe_groups[n].group[k] = j
            /\ Finished => (j \notin Retained /\ LastRun.stats.near_duplicates >= 1)

\* a finished run in which a row of at least three words repeats the
\* signature of an earlier row that was itself removed as a near-duplicate
C4_Witness ==
    /\ Finished
    /\ ValidThreshold
    /\ \E i \in DOMAIN minhashes : \E j \in DOMAIN minhashes :
        i < j /\ SigOf(i) = SigOf(j) /\ ~SubK(i) /\ i \notin Retained

(***************************************************************************)
(* Two finished runs on the same input.                                    *)
(***************************************************************************)
BothRan == pc = "idle" /\ Len(runs) = 2

BothWrote == BothRan /\ runs[1].exit = "ok" /\ runs[2].exit = "ok"

CollideUnder(i, j, t) == BandsCollide(SigOf(i), SigOf(j), t)

\* every pair of rows colliding under threshold hi collides under threshold lo
Nested(lo, hi) ==
    \A i \in Survivors : \A j \in Survivors :
        (i # j /\ CollideUnder(i, j, hi)) => CollideUnder(i, j, lo)

\* colliding under threshold t is transitive on the rows that reach the index
Transitive(t) ==
    \A i \in Survivors : \A j \in Survivors : \A k \in Survivors :
        (i # j /\ j # k /\ i # k /\ CollideUnder(i, j, t) /\ CollideUnder(j, k, t))
            => CollideUnder(i, k, t)

(***************************************************************************)
(* C5: threshold monotonicity.  As claimed: of two runs on the same input  *)
(* with thresholds in (0, 1], when every pair colliding under the higher   *)
(* threshold also collides under the lower one, the run with the higher    *)
(* threshold retains at least as many rows as the other.                   *)
(***************************************************************************)
C5_ThresholdMonotone ==
    BothWrote =>
        \A a \in {1, 2} : \A b \in {1, 2} :
            (/\ 0 < runs[a].threshold
             /\ runs[a].threshold < runs[b].threshold
             /\ Nested(runs[a].threshold, runs[b].threshold))
                => Len(runs[b].unique_indices) >= Len(runs[a].unique_indices)

(***************************************************************************)
(* C5 as amended: the same, when in addition colliding under the higher    *)
(* threshold is transitive on the rows that reach the index.               *)
(***************************************************************************)
C5_MonotoneWhenTransitive ==
    BothWrote =>
        \A a \in {1, 2} : \A b \in {1, 2} :
            (/\ 0 < runs[a].threshold
             /\ runs[a].threshold < runs[b].threshold
             /\ Nested(runs[a].threshold, runs[b].threshold)
             /\ Transitive(runs[b].threshold))
                => Len(runs[b].unique_indices) >= Len(runs[a].unique_indices)

\* two runs under the amended claim's conditions, where rows collide under
\* the higher threshold and the higher threshold retains strictly more
C5_Witness ==
    /\ BothWrote
    /\ 0 < runs[1].threshold
    /\ runs[1].threshold < runs[2].threshold
    /\ Nested(runs[1].threshold, runs[2].threshold)
    /\ Transitive(runs[2].threshold)
    /\ \E i \in Survivors : \E j \in Survivors :
        i < j /\ CollideUnder(i, j, runs[2].threshold)
    /\ Len(runs[2].unique_indices) > Len(runs[1].unique_indices)
    /\ Len(runs[2].unique_indices) < Cardinality(Survivors)

(***************************************************************************)
(* C6: determinism.  Two runs on the same input with the same threshold    *)
(* end the same way and write the same retained list, the same stats and   *)
(* the same output rows, whichever candidate each run took as result[0].   *)
(***************************************************************************)
C6_Determinism ==
    (BothRan /\ runs[1].threshold = runs[2].threshold) => runs[1] = runs[2]

\* two runs with the same threshold in which a row's query returned two
\* candidates
C6_Witness ==
    /\ BothWrote
    /\ runs[1].threshold = runs[2].threshold
    /\ ValidThreshold
    /\ \E j \in DOMAIN minhashes :
        Cardinality({k \in IndexedKeys(lsh) :
            k < j /\ BandsCollide(minhashes[k], minhashes[j], threshold)}) >= 2

(***************************************************************************)
(* C7: canonical selection.  At the end of a run the retained id of every  *)
(* group, the minimum of its members, is the key under which the group was *)
(* created and its first member; every other member has a larger index     *)
(* and is not retained.                                                    *)
(***************************************************************************)
C7_CanonicalSelection ==
    Finished =>
        /\ Len(LastRun.unique_indices) = Len(near_dupe_groups)
        /\ \A n \in 1..Len(near_dupe_groups) :
            LET g == near_dupe_groups[n]
            IN  /\ LastRun.unique_indices[n] = g.key
                /\ g.group[1] = g.key
                /\ g.key \in IndexedKeys(lsh)
                /\ \A k \in 2..Len(g.group) :
                        g.group[k] > g.key /\ g.group[k] \notin Retained

\* a finished run with two groups, one of them with three members
C7_Witness ==
    /\ Finished
    /\ ValidThreshold
    /\ Len(near_dupe_groups) >= 2
    /\ \E n \in 1..Len(near_dupe_groups) : Len(near_dupe_groups[n].group) >= 3

(***************************************************************************)
(* C8: frame of an exact duplicate.  A step of the loop on a row whose     *)
(* digest is in the seen set adds one to the exact-duplicate counter and   *)
(* leaves the seen set, the signatures, the index and the groups as they   *)
(* were; no signature is computed and no query made.                       *)
(***************************************************************************)
C8_ExactDuplicateFrame ==
    [][(pc = "loop" /\ idx < Len(items) /\ items[idx + 1].sha256 \in sha256_seen)
        => /\ exact_dupes' = exact_dupes + 1
           /\ idx' = idx + 1
           /\ UNCHANGED <<sha256_seen, minhashes, lsh, near_dupe_groups, calls,
                          runs, items, pc>>]_vars

\* an exact duplicate has been counted after the index and the groups were
\* filled
C8_Witness ==
    /\ pc = "loop"
    /\ exact_dupes >= 1
    /\ Len(near_dupe_groups) >= 2
    /\ idx >= 1
    /\ ShaOf(idx - 1) \in {ShaOf(j) : j \in 0..(idx - 2)}

(***************************************************************************)
(* C9: malformed text.  As claimed: a run with a threshold in (0, 1] never *)
(* aborts; it writes its retained list and stats, and a row whose text is  *)
(* null is retained.                                                       *)
(***************************************************************************)
C9_MalformedDegrades ==
    (pc = "idle" /\ runs # <<>> /\ ValidThreshold) =>
        /\ LastRun.exit = "ok"
        /\ \A i \in Survivors : ~WellFormed(i) => i \in Retained

(***************************************************************************)
(* C10: order of the output.  The retained id list is strictly increasing  *)
(* (so no id occurs twice), and the output rows are the input rows at      *)
(* those ids, in that order.                                               *)
(***************************************************************************)
C10_RetainedInArrivalOrder ==
    Finished =>
        LET u == LastRun.unique_indices
        IN  /\ \A a \in 1..Len(u) : \A b \in 1..Len(u) : a < b => u[a] < u[b]
            /\ Len(LastRun.output) = Len(u)
            /\ \A a \in 1..Len(u) : LastRun.output[a] = items[u[a] + 1]

\* a finished run that retained three rows and removed one between them
C10_Witness ==
    /\ Finished
    /\ ValidThreshold
    /\ Len(LastRun.unique_indices) >= 3
    /\ \E a \in 1..(Len(LastRun.unique_indices) - 1) :
        LastRun.unique_indices[a + 1] > LastRun.unique_indices[a] + 1

(***************************************************************************)
(* C12: threshold validation.  As claimed: a run started with a threshold  *)
(* outside (0, 1] never enters the loop: it ends with an error, with no    *)
(* row processed, no output rows and no stats written.                     *)
(***************************************************************************)
C12_OutsideRejected ==
    /\ (pc = "loop" /\ idx > 0) => ValidThreshold
    /\ \A n \in 1..Len(runs) :
        ~(runs[n].threshold > 0 /\ runs[n].threshold <= 100) =>
            /\ runs[n].exit = "ValueError"
            /\ runs[n].output = <<>>
            /\ runs[n].stats = NoStats

(***************************************************************************)
(* Vocabulary of the index properties.                                     *)
(***************************************************************************)
\* the ids stored in the bucket of band i under band key H
Bucket(index, i, H) == Get(index.hashtables[i], H)

\* the rows that passed the digest filter and whose band i has band key H
HashedInto(i, H) == {j \in DOMAIN minhashes : BandKey(lsh, minhashes[j], i) = H}

\* the run has a threshold in (0, 1] and every row that reached the index has
\* at least three words
CleanRun == ValidThreshold /\ \A j \in DOMAIN minhashes : ~SubK(j)

\* every occupied bucket of the index is occupied by the same ids after the step
BucketsKept ==
    \A i \in 1..lsh.b : \A H \in DOMAIN lsh.hashtables[i] :
        /\ i \in 1..lsh'.b
        /\ H \in DOMAIN lsh'.hashtables[i]
        /\ lsh'.hashtables[i][H] = lsh.hashtables[i][H]

(***************************************************************************)
(* C13: one id per bucket.  As claimed: every bucket of the index holds at *)
(* most one id, that id is the first row (of those that passed the digest  *)
(* filter) whose signature has the bucket's band key in that band, and no  *)
(* step replaces or removes the id of an occupied bucket.                  *)
(***************************************************************************)
C13_FirstArrivalPerBucket ==
    [][/\ BucketsKept
       /\ CleanRun' =>
            \A i \in 1..lsh'.b : \A H \in DOMAIN lsh'.hashtables[i] :
                /\ Cardinality(lsh'.hashtables[i][H]) <= 1
                /\ \A k \in lsh'.hashtables[i][H] :
                    \A j \in DOMAIN minhashes' :
                        BandKey(lsh', minhashes'[j], i) = H => k <= j]_vars

(***************************************************************************)
(* C13 as amended: every bucket of the index holds exactly one id, the id  *)
(* of a group's representative whose signature has the bucket's band key   *)
(* in that band; it is the first row with that band key whose query        *)
(* returned nothing (an earlier row with the band key was a match of       *)
(* another representative and was not inserted); no step replaces or       *)
(* removes the id of an occupied bucket.                                   *)
(***************************************************************************)
C13_OneRepresentativePerBucket ==
    [][/\ BucketsKept
       /\ \A i \in 1..lsh'.b : \A H \in DOMAIN lsh'.hashtables[i] :
            /\ Cardinality(lsh'.hashtables[i][H]) = 1
            /\ \A k \in lsh'.hashtables[i][H] :
                /\ k \in GroupKeys(near_dupe_groups')
                /\ BandKey(lsh', minhashes'[k], i) = H
                /\ \A j \in DOMAIN minhashes' :
                    (BandKey(lsh', minhashes'[j], i) = H /\ j < k)
                        => j \notin GroupKeys(near_dupe_groups')]_vars

\* a bucket holds a representative although an earlier row, a match of
\* another representative, has the bucket's band key; and a later row with
\* that band key has left the bucket as it was
C13_Witness ==
    /\ CleanRun
    /\ \E i \in 1..lsh.b : \E H \in DOMAIN lsh.hashtables[i] :
        \E k \in Bucket(lsh, i, H) :
            /\ \E j \in HashedInto(i, H) : j < k
            /\ \E j \in HashedInto(i, H) : j > k

\* the ids that were in the bucket of band i of row j's signature when row j
\* was queried: buckets keep their ids, and rows enter the index in
\* arrival order
BucketAtQuery(j, i) ==
    {k \in Bucket(lsh, i, BandKey(lsh, minhashes[j], i)) : k < j}

\* the bands in which row j's query found a bucket occupied
CollidingBands(j) == {i \in 1..lsh.b : BucketAtQuery(j, i) # {}}

\* the key of the group that row j was appended to
GroupKeyOf(j) ==
    near_dupe_groups[CHOOSE n \in 1..Len(near_dupe_groups) :
        \E a \in 1..Len(near_dupe_groups[n].group) :
            near_dupe_groups[n].group[a] = j].key

(***************************************************************************)
(* C14: choice among several candidates.  As claimed: a row whose query    *)
(* found occupied buckets is appended to the group of the id found in the  *)
(* lowest-numbered colliding band.                                         *)
(***************************************************************************)
C14_LowestBandExemplar ==
    CleanRun =>
        \A j \in DOMAIN minhashes :
            CollidingBands(j) # {} =>
                LET first == CHOOSE i \in CollidingBands(j) :
                                \A i2 \in CollidingBands(j) : i <= i2
                IN  GroupKeyOf(j) \in BucketAtQuery(j, first)

\* every id stored in some bucket of the index
BucketIds(index) ==
    UNION {UNION {index.hashtables[i][H] : H \in DOMAIN index.hashtables[i]} :
            i \in 1..index.b}

\* the ids for which the run has called lsh.insert
InsertedIds == {calls[n].idx : n \in {a \in 1..Len(calls) : calls[a].op = "insert"}}

(***************************************************************************)
(* C15: the index holds the representatives.  In every reachable state the *)
(* ids of the index are the keys of the groups created so far, and they    *)
(* are the ids lsh.insert was called for; a group key is stored in every   *)
(* band, under the band key of its signature; a row that joined a group as *)
(* a match is stored in no bucket of any band.                             *)
(***************************************************************************)
C15_IndexHoldsRepresentatives ==
    /\ IndexedKeys(lsh) = GroupKeys(near_dupe_groups)
    /\ BucketIds(lsh) = GroupKeys(near_dupe_groups)
    /\ InsertedIds = GroupKeys(near_dupe_groups)
    /\ \A k \in GroupKeys(near_dupe_groups) : \A i \in 1..lsh.b :
            k \in Bucket(lsh, i, BandKey(lsh, minhashes[k], i))
    /\ \A j \in (DOMAIN minhashes) \ GroupKeys(near_dupe_groups) :
            \A i \in 1..lsh.b : \A H \in DOMAIN lsh.hashtables[i] :
                j \notin lsh.hashtables[i][H]

\* an index of several bands with two representatives, and a matched row
\* that arrived between them
C15_Witness ==
    /\ CleanRun
    /\ lsh.b >= 2
    /\ \E k1 \in IndexedKeys(lsh) : \E k2 \in IndexedKeys(lsh) :
        \E j \in (DOMAIN minhashes) \ GroupKeys(near_dupe_groups) :
            k1 < j /\ j < k2

\* the position of a call within one iteration of the loop
OpRank(op) == CASE op = "create_minhash" -> 1
                [] op = "query" -> 2
                [] op = "insert" -> 3

(***************************************************************************)
(* C16: query before insert, in arrival order.  The signature, query and   *)
(* insert calls of a run are made row by row in arrival order, a row's     *)
(* query right after its signature and its insert, if any, right after     *)
(* its query; the index queried for the next row holds only ids of rows    *)
(* that arrived before it; every row is in a group keyed by itself or by   *)
(* an earlier row, and a row keyed by itself got there by an empty query   *)
(* followed by its insert, as the first member of the group.               *)
(***************************************************************************)
C16_QueryBeforeInsert ==
    /\ \A a \in 1..Len(calls) : \A b \in 1..Len(calls) :
        a < b => \/ calls[a].idx < calls[b].idx
                 \/ /\ calls[a].idx = calls[b].idx
                    /\ OpRank(calls[a].op) < OpRank(calls[b].op)
    /\ \A a \in 1..Len(calls) :
        /\ calls[a].op = "query" =>
                a > 1 /\ calls[a - 1] = [op |-> "create_minhash", idx |-> calls[a].idx]
        /\ calls[a].op = "insert" =>
                a > 1 /\ calls[a - 1] = [op |-> "query", idx |-> calls[a].idx]
    /\ \A k \in IndexedKeys(lsh) : k < idx
    /\ \A j \in DOMAIN minhashes :
        /\ j < idx
        /\ GroupKeyOf(j) <= j
        /\ GroupKeyOf(j) = j =>
            /\ j \in InsertedIds
            /\ near_dupe_groups[GroupOf(near_dupe_groups, j)].group[1] = j
        /\ GroupKeyOf(j) < j => j \notin InsertedIds

\* a matched row (queried, not inserted) between two inserted rows, with a
\* further row still to come
C16_Witness ==
    /\ CleanRun
    /\ pc = "loop"
    /\ idx < Len(items)
    /\ \E a \in 1..Len(calls) : \E b \in 1..Len(calls) : \E c \in 1..Len(calls) :
        /\ a < b /\ b < c
        /\ calls[a].op = "insert"
        /\ calls[b].op = "query" /\ calls[b].idx \notin InsertedIds
        /\ calls[c].op = "insert"

(***************************************************************************)
(* Vocabulary of the group properties.                                     *)
(***************************************************************************)
\* the rows whose iteration is over and that passed the digest filter
Passed == {i \in Ids : i < idx /\ FirstOccurrence(i)}

\* the places <<n, a>> of near_dupe_groups at which row j is a member
PlacesOf(groups, j) ==
    {p \in UNION {{<<n, a>> : a \in 1..Len(groups[n].group)} : n \in 1..Len(groups)} :
        groups[p[1]].group[p[2]] = j}

Members(groups) ==
    UNION {{groups[n].group[a] : a \in 1..Len(groups[n].group)} : n \in 1..Len(groups)}

\* the groups partition the rows that passed the digest filter, and every
\* group holds the row it is keyed by
GroupsPartition ==
    /\ DOMAIN minhashes = Passed
    /\ Members(near_dupe_groups) = Passed
    /\ \A j \in Passed : Cardinality(PlacesOf(near_dupe_groups, j)) = 1
    /\ \A n \in 1..Len(near_dupe_groups) : \A n2 \in 1..Len(near_dupe_groups) :
        n # n2 => near_dupe_groups[n].key # near_dupe_groups[n2].key
    /\ \A n \in 1..Len(near_dupe_groups) :
        \E a \in 1..Len(near_dupe_groups[n].group) :
            near_dupe_groups[n].group[a] = near_dupe_groups[n].key

\* the step of a row through the index: with no candidate it opens a group
\* of its own with itself as only member, with candidates it is appended to
\* the existing group of one of them and no key is created
RoutedIntoGroups ==
    (pc = "loop" /\ minhashes' # minhashes) =>
        LET m == minhashes'[idx]
        IN  IF Query(lsh, m) = {}
            THEN near_dupe_groups' =
                    Append(near_dupe_groups, [key |-> idx, group |-> <<idx>>])
            ELSE /\ GroupKeys(near_dupe_groups') = GroupKeys(near_dupe_groups)
                 /\ \E n \in 1..Len(near_dupe_groups) :
                        /\ near_dupe_groups[n].key \in Query(lsh, m)
                        /\ near_dupe_groups' =
                            [near_dupe_groups EXCEPT ![n].group = Append(@, idx)]

(***************************************************************************)
(* C17: the groups partition the survivors of the digest filter.  In every *)
(* reachable state each row that passed the digest filter is a member of   *)
(* exactly one group, the groups hold no other row, group keys are         *)
(* distinct and every group holds its key; a row with an empty query       *)
(* result opens a one-member group keyed by itself, and a row with a       *)
(* non-empty result is appended to the existing group keyed by one of the  *)
(* returned ids, creating no key.                                          *)
(***************************************************************************)
C17_GroupsPartitionSurvivors ==
    [][GroupsPartition' /\ RoutedIntoGroups]_vars

\* two groups of which one has two members, after an exact duplicate was
\* skipped
C17_Witness ==
    /\ CleanRun
    /\ exact_dupes >= 1
    /\ Len(near_dupe_groups) >= 2
    /\ \E n \in 1..Len(near_dupe_groups) : Len(near_dupe_groups[n].group) >= 2
    /\ Passed # Ids

\* the member list of the group keyed by k
GroupList(groups, k) == groups[GroupOf(groups, k)].group

\* sequence s is sequence t or t with later-arriving rows appended
GrownFrom(s, t) ==
    /\ Len(s) >= Len(t)
    /\ \A a \in 1..Len(t) : s[a] = t[a]
    /\ \A a \in (Len(t) + 1)..Len(s) : \A c \in 1..Len(t) : s[a] > t[c]

(***************************************************************************)
(* C18: groups are stable.  Every step of a run keeps every existing       *)
(* group: its key is still a key, its representative (the minimum of its   *)
(* members, line 53) is still the key, its member list is the old list     *)
(* with at most later-arriving rows appended, and every member is still a  *)
(* member of that group and of no other.                                   *)
(***************************************************************************)
C18_GroupsStable ==
    [][\A k \in GroupKeys(near_dupe_groups) :
        /\ k \in GroupKeys(near_dupe_groups')
        /\ SeqMin(GroupList(near_dupe_groups, k)) = k
        /\ SeqMin(GroupList(near_dupe_groups', k)) = k
        /\ GrownFrom(GroupList(near_dupe_groups', k), GroupList(near_dupe_groups, k))
        /\ \A a \in 1..Len(GroupList(near_dupe_groups, k)) :
            LET j == GroupList(near_dupe_groups, k)[a]
            IN  PlacesOf(near_dupe_groups', j) =
                    {<<GroupOf(near_dupe_groups', k), a>>}]_vars

\* a group has received a member after a later group was created
C18_Witness ==
    /\ CleanRun
    /\ \E n \in 1..Len(near_dupe_groups) : \E n2 \in 1..Len(near_dupe_groups) :
        /\ n < n2
        /\ \E a \in 1..Len(near_dupe_groups[n].group) :
            near_dupe_groups[n].group[a] > near_dupe_groups[n2].key

\* MinHash.jaccard(other) as a count: the number of signature positions on
\* which the two signatures agree (the estimate is this count over NumPerm)
Agreeing(m1, m2) == Cardinality({p \in 1..NumPerm : m1[p] = m2[p]})

(***************************************************************************)
(* C19: members are similar to their representative.  As claimed: for      *)
(* every group and every member other than its key, the fraction of        *)
(* signature positions on which member and key agree is at least the       *)
(* threshold of the run.                                                   *)
(***************************************************************************)
C19_MembersAboveThreshold ==
    CleanRun =>
        \A n \in 1..Len(near_dupe_groups) :
            \A a \in 1..Len(near_dupe_groups[n].group) :
                LET k == near_dupe_groups[n].key
                    j == near_dupe_groups[n].group[a]
                IN  j # k =>
                        Agreeing(minhashes[j], minhashes[k]) * 100
                            >= threshold * NumPerm

(***************************************************************************)
(* C20: the retained rows are the greedy non-colliding set.  When a run    *)
(* has written its output, no two retained rows collide in any band of the *)
(* run's banding, every row that passed the digest filter and was not      *)
(* retained collides in some band with an earlier retained row, and so a   *)
(* row that passed the digest filter is retained exactly when it collides  *)
(* with no earlier retained row.                                           *)
(***************************************************************************)
C20_GreedyNonColliding ==
    Finished =>
        /\ Retained \subseteq Passed
        /\ \A i \in Retained : \A j \in Retained :
            i # j => ~CollideUnder(i, j, threshold)
        /\ \A j \in Passed \ Retained :
            \E k \in Retained : k < j /\ CollideUnder(k, j, threshold)
        /\ \A j \in Passed :
            j \in Retained <=>
                ~\E k \in Retained : k < j /\ CollideUnder(k, j, threshold)

\* a finished run over several bands that retained a row arriving after a
\* removed near-duplicate, the removed row colliding with that later row too
C20_Witness ==
    /\ Finished
    /\ CleanRun
    /\ lsh.b >= 2
    /\ \E j \in Passed \ Retained : \E k \in Retained :
        k > j /\ CollideUnder(k, j, threshold)

(***************************************************************************)
(* C21: rows with one signature share a group.  As claimed: a row whose    *)
(* signature equals that of an earlier row that passed the digest filter   *)
(* is in the group that the earlier row is in, whichever rows entered the  *)
(* index between the two.  Stated for the case the claim singles out, a    *)
(* row that entered the index between the two arrivals.                    *)
(***************************************************************************)
C21_SameGroupAsTwin ==
    CleanRun =>
        \A i \in DOMAIN minhashes : \A j \in DOMAIN minhashes :
            (/\ i < j
             /\ minhashes[i] = minhashes[j]
             /\ \E x \in IndexedKeys(lsh) : i < x /\ x < j)
                => GroupKeyOf(j) = GroupKeyOf(i)

(***************************************************************************)
(* C21 as amended: a row whose signature equals that of an earlier row     *)
(* that passed the digest filter joins, as a match, the group of an        *)
(* earlier representative that shares a band with it; when the earlier row *)
(* with its signature is itself a representative, that group is the        *)
(* earlier row's own, whichever rows entered the index between the two.    *)
(***************************************************************************)
C21_TwinJoinsCollidingGroup ==
    \A i \in DOMAIN minhashes : \A j \in DOMAIN minhashes :
        (i < j /\ minhashes[i] = minhashes[j]) =>
            /\ GroupKeyOf(j) < j
            /\ CollidingBands(j) # {}
            /\ \E b \in CollidingBands(j) : GroupKeyOf(j) \in BucketAtQuery(j, b)
            /\ GroupKeyOf(i) = i => GroupKeyOf(j) = i

\* a row repeats the signature of a representative after another row
\* entered the index between the two, under a banding of several bands
C21_Witness ==
    /\ CleanRun
    /\ lsh.b >= 2
    /\ \E i \in DOMAIN minhashes : \E j \in DOMAIN minhashes :
        /\ i < j /\ minhashes[i] = minhashes[j]
        /\ GroupKeyOf(i) = i
        /\ \E x \in IndexedKeys(lsh) : i < x /\ x < j

\* the run was ended by the exception raised in create_minhash
Aborted == pc = "idle" /\ runs # <<>> /\ LastRun.exit = "AttributeError"

\* the rows whose digest the loop has looked up: those before idx, and the
\* row at idx when the run was aborted while handling it
Examined == {i \in Ids : i < idx \/ (i = idx /\ Aborted)}

\* the rows create_minhash was called for
ReachedSignature ==
    {calls[n].idx : n \in {a \in 1..Len(calls) : calls[a].op = "create_minhash"}}

DistinctDigests(rows) == {ShaOf(i) : i \in rows}

\* the digest filter of lines 36-43 on the rows examined so far
DigestFilterExact ==
    /\ sha256_seen = DistinctDigests(Examined)
    /\ ReachedSignature = {i \in Examined : FirstOccurrence(i)}
    /\ Cardinality(ReachedSignature) = Cardinality(DistinctDigests(Examined))
    /\ exact_dupes = Cardinality(Examined) - Cardinality(DistinctDigests(Examined))
    /\ Finished =>
        /\ DOMAIN minhashes = Survivors
        /\ LastRun.stats.exact_duplicates =
                Len(items) - Cardinality(DistinctDigests(Ids))

(***************************************************************************)
(* C22: the digest filter.  In every state of a run the seen set is the    *)
(* set of digests of the rows examined so far and no step removes a digest *)
(* from it; the rows a signature was computed for are the first            *)
(* occurrences of the digests among the rows examined, as many as there    *)
(* are distinct digests; the exact-duplicate counter is the number of rows *)
(* examined minus the number of distinct digests, and so is the            *)
(* exact_duplicates entry of the stats for the whole input.                *)
(***************************************************************************)
C22_DigestFilter ==
    [][DigestFilterExact' /\ sha256_seen \subseteq sha256_seen']_vars

\* a finished run that skipped two exact duplicates, of two different
\* digests
C22_Witness ==
    /\ Finished
    /\ CleanRun
    /\ exact_dupes >= 2
    /\ Cardinality(sha256_seen) >= 2
    /\ \E i \in Ids : \E j \in Ids :
        /\ i < j /\ ~FirstOccurrence(i) /\ ~FirstOccurrence(j)
        /\ ShaOf(i) # ShaOf(j)

(***************************************************************************)
(* Vocabulary of the signature properties.                                 *)
(***************************************************************************)
\* the characters of t that are no whitespace, in order
NonSpace(t) == SelectSeq(t, LAMBDA c : c # " ")

\* the positions of t at which a run of non-whitespace characters starts
WordStarts(t) == {p \in 1..Len(t) : t[p] # " " /\ (p = 1 \/ t[p - 1] = " ")}

RECURSIVE Flatten(_)
Flatten(ws) == IF ws = <<>> THEN <<>> ELSE ws[1] \o Flatten(Tail(ws))

UpperCase == {"A", "D", "F", "H"}

\* words are the whitespace-delimited tokens of text, lower-cased
TokensOf(words, text) ==
    /\ Len(words) = Cardinality(WordStarts(text))
    /\ \A w \in 1..Len(words) :
        /\ words[w] # <<>>
        /\ \A p \in 1..Len(words[w]) : words[w][p] # " " /\ words[w][p] \notin UpperCase
    /\ Len(Flatten(words)) = Len(NonSpace(text))
    /\ \A p \in 1..Len(NonSpace(text)) :
        Flatten(words)[p] = LowerChar(NonSpace(text)[p])

(***************************************************************************)
(* C23: shingle extraction.  In a call of create_minhash on a text of n    *)
(* whitespace-delimited tokens, the list of shingles has n - 2 entries     *)
(* when n >= 3 and none when n < 3; entry w is the lower-cased tokens w,   *)
(* w + 1, w + 2 with one space between them; the shingles fed to the       *)
(* signature are the entries of the list in order, all of them when the    *)
(* call returns.                                                           *)
(***************************************************************************)
C23_ShingleWindows ==
    /\ cm.pc \in {"shingles", "for", "return"} => TokensOf(cm.words, cm.text)
    /\ cm.pc \in {"for", "return"} =>
        LET n == Len(cm.words)
        IN  /\ Len(cm.shingles) = (IF n >= ShingleWidth THEN n - 2 ELSE 0)
            /\ \A w \in 1..Len(cm.shingles) :
                cm.shingles[w] = cm.words[w] \o <<" ">> \o cm.words[w + 1]
                                    \o <<" ">> \o cm.words[w + 2]
            /\ cm.fed = SubSeq(cm.shingles, 1, cm.i)
            /\ cm.pc = "return" => cm.fed = cm.shingles

\* a call has returned on a text with an upper-case letter and a double
\* space, after feeding two shingles
C23_Witness ==
    /\ cm.pc = "return"
    /\ Len(cm.fed) = 2
    /\ \E p \in 1..Len(cm.text) : cm.text[p] \in UpperCase
    /\ \E p \in 1..(Len(cm.text) - 1) : cm.text[p] = " " /\ cm.text[p + 1] = " "

\* the hash of a shingle under permutation p, cut to the hash width
PermutedHash(p, shingle) ==
    AndMaxHash((PermA[p] * HashFunc(Encode(shingle)) + PermB[p]) % MersennePrime)

\* the least of the sentinel and the hashes, under permutation p, of the
\* shingles of S
MinOver(p, S) ==
    LET hs == {MaxHash} \cup {PermutedHash(p, sh) : sh \in S}
    IN  CHOOSE v \in hs : \A u \in hs : v <= u

\* the set of the shingles fed so far
FedSet == {cm.fed[a] : a \in 1..Len(cm.fed)}

\* the shingle list and the signature that create_minhash makes of each text
ShingleListOf == [t \in TextInputs |-> Shingles(Split(Lower(t)))]

ShingleSetOf ==
    [t \in TextInputs |-> {ShingleListOf[t][a] : a \in 1..Len(ShingleListOf[t])}]

SignatureOf == [t \in TextInputs |-> MinHashOf(t)]

\* every position of the signature is the least hash over the shingles fed,
\* and a returned signature is the signature of every text with that set
\* of shingles
MinOverFedSet ==
    /\ cm.pc \in {"for", "return"} =>
        \A p \in 1..NumPerm : cm.hashvalues[p] = MinOver(p, FedSet)
    /\ cm.pc = "return" =>
        \A t \in TextInputs :
            ShingleSetOf[t] = FedSet => SignatureOf[t] = cm.hashvalues

\* no position of the signature is larger after the step
NeverIncreases ==
    \A p \in (DOMAIN cm.hashvalues) \cap (DOMAIN cm'.hashvalues) :
        cm'.hashvalues[p] <= cm.hashvalues[p]

(***************************************************************************)
(* C24: the signature is a function of the shingle set.  During a call of  *)
(* create_minhash every position of the signature is the minimum, over     *)
(* the shingles fed so far, of their hash under that position's            *)
(* permutation (the sentinel when none was fed); no update increases a     *)
(* position; and the signature returned is the one create_minhash makes of *)
(* any text with the same set of shingles, in whatever order and however   *)
(* often its list holds them.                                              *)
(***************************************************************************)
C24_SignatureOfShingleSet ==
    [][MinOverFedSet' /\ NeverIncreases]_vars

\* a call has returned after two different shingles, neither of which has
\* the smaller hash under every permutation, and another text has them in
\* the reverse order
C24_Witness ==
    /\ cm.pc = "return"
    /\ Len(cm.fed) = 2
    /\ Cardinality(FedSet) = 2
    /\ \E p \in 1..NumPerm : PermutedHash(p, cm.fed[1]) < PermutedHash(p, cm.fed[2])
    /\ \E p \in 1..NumPerm : PermutedHash(p, cm.fed[2]) < PermutedHash(p, cm.fed[1])
    /\ \E t \in TextInputs :
        ShingleListOf[t] = <<cm.fed[2], cm.fed[1]>>

(***************************************************************************)
(* A run that is not stopped from outside: once main() is in its loop, the *)
(* interpreter executes the next iteration, and the statements after the   *)
(* loop, without waiting for anything.                                     *)
(***************************************************************************)
LiveRows == {row \in Rows : row.sha256 \in {"h0", "h3", "h4", "h5"}}

LiveInputs == UNION {[1..n -> LiveRows] : n \in 0..MaxDocs}

InitLive == Init /\ items \in LiveInputs

\* one iteration of the for loop, or the statements after it
LoopStep == ExactDuplicate \/ MalformedText \/ NearDuplicate \/ NewCluster \/ Finish

SpecLive == InitLive /\ [][Next]_vars /\ WF_vars(LoopStep)

AllWellFormed == \A i \in Ids : WellFormed(i)

\* the three verdicts on a row of a finished run
IsExactDuplicate(i) == ~FirstOccurrence(i)

IsNearDuplicate(i) ==
    /\ i \in DOMAIN minhashes
    /\ GroupKeyOf(i) # i
    /\ i \notin Retained

IsRetained(i) ==
    /\ i \in DOMAIN minhashes
    /\ GroupKeyOf(i) = i
    /\ i \in Retained

\* every row has exactly one verdict, and the stats count the verdicts
Classified ==
    /\ \A i \in Ids :
        Cardinality({v \in {"exact", "near", "retained"} :
            \/ v = "exact" /\ IsExactDuplicate(i)
            \/ v = "near" /\ IsNearDuplicate(i)
            \/ v = "retained" /\ IsRetained(i)}) = 1
    /\ LastRun.stats.exact_duplicates = Cardinality({i \in Ids : IsExactDuplicate(i)})
    /\ LastRun.stats.near_duplicates = Cardinality({i \in Ids : IsNearDuplicate(i)})
    /\ LastRun.stats.unique_items = Cardinality({i \in Ids : IsRetained(i)})

(***************************************************************************)
(* C25: termination and classification.  A run on well-formed rows that    *)
(* has entered the loop ends with its output written; every iteration      *)
(* moves to the next row, so each row is examined once, in arrival order,  *)
(* and the loop ends only after the last row; in the finished run every    *)
(* row is exactly one of exact duplicate, near-duplicate (a member of a    *)
(* group keyed by another row) and retained (the key of its group).        *)
(***************************************************************************)
C25_TerminatesClassified ==
    /\ (pc = "loop" /\ AllWellFormed) ~> Finished
    /\ [][(pc = "loop" /\ pc' = "loop") => idx' = idx + 1]_vars
    /\ [][(pc = "loop" /\ pc' = "idle" /\ AllWellFormed) => idx = Len(items)]_vars
    /\ []((Finished /\ AllWellFormed) => Classified)

\* a finished run on well-formed rows with a row of each verdict
C25_Witness ==
    /\ Finished
    /\ AllWellFormed
    /\ CleanRun
    /\ \E i \in Ids : IsExactDuplicate(i)
    /\ \E i \in Ids : IsNearDuplicate(i)
    /\ \E i \in Ids : \E j \in Ids : i # j /\ IsRetained(i) /\ IsRetained(j)

====
